---- MODULE Spec2Model ----
(***************************************************************************)
(* Model of the PDF viewer component with text highlighting               *)
(* (frontend/app/components/CustomPDFViewer.tsx).                         *)
(*                                                                         *)
(* Two parts:                                                              *)
(*   - the highlight computation of renderTextLayer (query normalization, *)
(*     tiered substring search, offset-to-item mapping, bounding box), as *)
(*     operators over strings modelled as sequences of characters;        *)
(*   - the component's state and its effects (document load, page         *)
(*     navigation, the render-page effect and the asynchronous renderPage *)
(*     invocations it starts), as a state machine.                        *)
(***************************************************************************)
EXTENDS Integers, Sequences, FiniteSets, TLC

(***************************************************************************)
(* Strings are sequences of one-character strings; indices of the code    *)
(* are 0-based, SubSeq is 1-based.                                        *)
(***************************************************************************)
Null == "null"

\* Characters matched by the regular expression class \s (the ones the inputs use).
WhiteSpace == {" ", "\t"}

\* String.prototype.toLowerCase on one character of the input alphabet (ASCII
\* letters and white space, for which lower-casing keeps the length).
ToLowerChar(c) ==
  CASE c = "A" -> "a"
    [] c = "B" -> "b"
    [] c = "C" -> "c"
    [] OTHER -> c

\* searchText.toLowerCase()
ToLowerCase(s) == [i \in 1..Len(s) |-> ToLowerChar(s[i])]

RECURSIVE TrimStart(_)
TrimStart(s) ==
  IF s # <<>> /\ Head(s) \in WhiteSpace THEN TrimStart(Tail(s)) ELSE s

RECURSIVE TrimEnd(_)
TrimEnd(s) ==
  IF s # <<>> /\ s[Len(s)] \in WhiteSpace
  THEN TrimEnd(SubSeq(s, 1, Len(s) - 1))
  ELSE s

\* String.prototype.trim
Trim(s) == TrimEnd(TrimStart(s))

\* s.replace(/\s+/g, ' ') on the characters lo..hi of s: the first character
\* of a run of white space becomes one space, the others of the run are
\* dropped.  The range is halved, so that the evaluation of a string of n
\* characters nests about log n deep.
RECURSIVE CollapseFrom(_, _, _)
CollapseFrom(s, lo, hi) ==
  IF lo > hi THEN <<>>
  ELSE IF lo = hi
       THEN IF s[lo] \notin WhiteSpace THEN <<s[lo]>>
            ELSE IF lo > 1 /\ s[lo - 1] \in WhiteSpace THEN <<>>
            ELSE <<" ">>
       ELSE LET mid == (lo + hi) \div 2
            IN CollapseFrom(s, lo, mid) \o CollapseFrom(s, mid + 1, hi)

\* s.replace(/\s+/g, ' '): every maximal run of white space becomes one space.
CollapseWhitespace(s) == CollapseFrom(s, 1, Len(s))

Min(a, b) == IF a <= b THEN a ELSE b
Max(a, b) == IF a >= b THEN a ELSE b

\* String.prototype.substring(from, to) for 0 <= from <= to.
Substring(s, from, to) == SubSeq(s, Min(from, Len(s)) + 1, Min(to, Len(s)))

\* String.prototype.indexOf: the scan from index 0 upward, -1 when absent.
RECURSIVE IndexOfFrom(_, _, _)
IndexOfFrom(text, pat, i) ==
  IF i + Len(pat) > Len(text) THEN -1
  ELSE IF SubSeq(text, i + 1, i + Len(pat)) = pat THEN i
  ELSE IndexOfFrom(text, pat, i + 1)

IndexOf(text, pat) == IndexOfFrom(text, pat, 0)

\* split(' ') on the characters lo..hi of s: the pieces of the two halves,
\* the last piece of the first half going on in the first of the second.
RECURSIVE SplitFrom(_, _, _)
SplitFrom(s, lo, hi) ==
  IF lo > hi THEN << <<>> >>
  ELSE IF lo = hi
       THEN IF s[lo] = " " THEN << <<>>, <<>> >> ELSE << <<s[lo]>> >>
       ELSE LET mid == (lo + hi) \div 2
                left == SplitFrom(s, lo, mid)
                right == SplitFrom(s, mid + 1, hi)
            IN SubSeq(left, 1, Len(left) - 1)
                 \o << left[Len(left)] \o right[1] >>
                 \o Tail(right)

\* String.prototype.split(' '): the pieces between single spaces (possibly empty).
Split(s) == SplitFrom(s, 1, Len(s))

\* Array.prototype.slice(0, n)
SliceTo(xs, n) == SubSeq(xs, 1, Min(n, Len(xs)))

\* join(sep) on the elements lo..hi of xs.
RECURSIVE JoinFrom(_, _, _, _)
JoinFrom(xs, sep, lo, hi) ==
  IF lo > hi THEN <<>>
  ELSE IF lo = hi THEN xs[lo]
  ELSE LET mid == (lo + hi) \div 2
       IN JoinFrom(xs, sep, lo, mid) \o sep \o JoinFrom(xs, sep, mid + 1, hi)

\* Array.prototype.join(' ')
Join(xs) == JoinFrom(xs, <<" ">>, 1, Len(xs))

(***************************************************************************)
(* renderTextLayer: normalization of the search text.                     *)
(***************************************************************************)
MaxSearchLength == 100
MinSearchLength == 2
FourWordThreshold == 10
TwoWordThreshold == 5
FourWords == 4
TwoWords == 2
DefaultFontSize == 12

\* Mutant of NormalizeSearch: the text is cut to 100 characters first.
NormalizeSearch_TruncatesFirst(searchText) ==
  CollapseWhitespace(Trim(ToLowerCase(Substring(searchText, 0, MaxSearchLength))))

NormalizeSearch(searchText) ==
  Substring(CollapseWhitespace(Trim(ToLowerCase(searchText))), 0, MaxSearchLength)

\* Mutant of Rejected: the minimum length is excluded.
Rejected_Exclusive(normalizedSearch) ==
  normalizedSearch = <<>> \/ Len(normalizedSearch) <= MinSearchLength

Rejected(normalizedSearch) ==
  normalizedSearch = <<>> \/ Len(normalizedSearch) < MinSearchLength

(***************************************************************************)
(* renderTextLayer: the text items of the page.  A raw fragment is        *)
(* [str, transform], transform a 6-tuple or Null.  Page-space lengths are *)
(* kept in tenths of a page unit, so that fontSize * 0.6 is an integer.   *)
(***************************************************************************)
Abs(n) == IF n < 0 THEN -n ELSE n

IdentityTransform == <<1, 0, 0, 1, 0, 0>>

\* Mutant of KeepsItem: a fragment of white space only is kept.
KeepsItem_NonEmpty(item) == item.str # <<>>

\* item.str && item.str.trim()
KeepsItem(item) == item.str # <<>> /\ Trim(item.str) # <<>>

\* Mutant of FontSizeOf: a transform[0] of 0 is taken as the size.
FontSizeOf_NoFallback(transform) == Abs(transform[1])

\* Mutant of FontSizeOf: the entries are taken with their sign.
FontSizeOf_Signed(transform) ==
  IF transform[1] # 0 THEN transform[1]
  ELSE IF transform[4] # 0 THEN transform[4]
  ELSE DefaultFontSize

\* Math.abs(transform[0]) || Math.abs(transform[3]) || 12
FontSizeOf(transform) ==
  IF Abs(transform[1]) # 0 THEN Abs(transform[1])
  ELSE IF Abs(transform[4]) # 0 THEN Abs(transform[4])
  ELSE DefaultFontSize

\* fontSize * 0.6, in tenths
CharWidth(fontSize) == fontSize * 6

\* Mutant of TextItemOf: the text item carries the trimmed text.
TextItemOf_Trimmed(item) ==
  LET transform == IF item.transform = Null THEN IdentityTransform ELSE item.transform
      fontSize == FontSizeOf(transform)
  IN [str |-> Trim(item.str),
      x |-> 10 * transform[5],
      y |-> 10 * transform[6],
      width |-> Len(Trim(item.str)) * CharWidth(fontSize),
      height |-> fontSize,
      fontSize |-> fontSize]

TextItemOf(item) ==
  LET transform == IF item.transform = Null THEN IdentityTransform ELSE item.transform
      fontSize == FontSizeOf(transform)
  IN [str |-> item.str,
      x |-> 10 * transform[5],
      y |-> 10 * transform[6],
      width |-> Len(item.str) * CharWidth(fontSize),
      height |-> fontSize,
      fontSize |-> fontSize]

\* textContent.items.forEach(...): the kept fragments, in extraction order.
RECURSIVE BuildTextItems(_)
BuildTextItems(rawItems) ==
  IF rawItems = <<>> THEN <<>>
  ELSE IF KeepsItem(Head(rawItems))
       THEN <<TextItemOf(Head(rawItems))>> \o BuildTextItems(Tail(rawItems))
       ELSE BuildTextItems(Tail(rawItems))

FullText(textItems) == Join([i \in 1..Len(textItems) |-> textItems[i].str])

NormalizedFullText(textItems) == CollapseWhitespace(ToLowerCase(FullText(textItems)))

(***************************************************************************)
(* renderTextLayer: the tiered search.  tier is 1, 2 or 3 for the search  *)
(* that produced searchIndex, 0 when every search failed; matched is the  *)
(* string that search looked for.                                          *)
(***************************************************************************)
\* Mutant of KeyWords: one word less than asked for is kept (at least one).
KeyWords_OneWordLess(normalizedSearch, n) ==
  Join(SliceTo(Split(normalizedSearch), Max(1, n - 1)))

\* normalizedSearch.split(' ').slice(0, n).join(' ')
KeyWords(normalizedSearch, n) == Join(SliceTo(Split(normalizedSearch), n))

\* Mutant of FindSearchIndex: the two-word search runs whenever the query is
\* long enough, also after an earlier search has succeeded.
FindSearchIndex_TwoWordsUnguarded(normalizedFullText, normalizedSearch) ==
  LET exact == IndexOf(normalizedFullText, normalizedSearch)
      tryFour == exact = -1 /\ Len(normalizedSearch) > FourWordThreshold
      four == IF tryFour
              THEN IndexOf(normalizedFullText, KeyWords(normalizedSearch, FourWords))
              ELSE exact
      tryTwo == Len(normalizedSearch) > TwoWordThreshold
      two == IF tryTwo
             THEN IndexOf(normalizedFullText, KeyWords(normalizedSearch, TwoWords))
             ELSE four
  IN [searchIndex |-> two,
      tier |-> IF exact # -1 THEN 1
               ELSE IF four # -1 THEN 2
               ELSE IF two # -1 THEN 3
               ELSE 0,
      matched |-> IF exact # -1 THEN normalizedSearch
                  ELSE IF four # -1 THEN KeyWords(normalizedSearch, FourWords)
                  ELSE IF two # -1 THEN KeyWords(normalizedSearch, TwoWords)
                  ELSE <<>>,
      triedFour |-> tryFour,
      triedTwo |-> tryTwo]

\* Mutant of FindSearchIndex: the length thresholds are inclusive.
FindSearchIndex_InclusiveThresholds(normalizedFullText, normalizedSearch) ==
  LET exact == IndexOf(normalizedFullText, normalizedSearch)
      tryFour == exact = -1 /\ Len(normalizedSearch) >= FourWordThreshold
      four == IF tryFour
              THEN IndexOf(normalizedFullText, KeyWords(normalizedSearch, FourWords))
              ELSE exact
      tryTwo == four = -1 /\ Len(normalizedSearch) >= TwoWordThreshold
      two == IF tryTwo
             THEN IndexOf(normalizedFullText, KeyWords(normalizedSearch, TwoWords))
             ELSE four
  IN [searchIndex |-> two,
      tier |-> IF exact # -1 THEN 1
               ELSE IF four # -1 THEN 2
               ELSE IF two # -1 THEN 3
               ELSE 0,
      matched |-> IF exact # -1 THEN normalizedSearch
                  ELSE IF four # -1 THEN KeyWords(normalizedSearch, FourWords)
                  ELSE IF two # -1 THEN KeyWords(normalizedSearch, TwoWords)
                  ELSE <<>>,
      triedFour |-> tryFour,
      triedTwo |-> tryTwo]

FindSearchIndex(normalizedFullText, normalizedSearch) ==
  LET exact == IndexOf(normalizedFullText, normalizedSearch)
      tryFour == exact = -1 /\ Len(normalizedSearch) > FourWordThreshold
      four == IF tryFour
              THEN IndexOf(normalizedFullText, KeyWords(normalizedSearch, FourWords))
              ELSE exact
      tryTwo == four = -1 /\ Len(normalizedSearch) > TwoWordThreshold
      two == IF tryTwo
             THEN IndexOf(normalizedFullText, KeyWords(normalizedSearch, TwoWords))
             ELSE four
  IN [searchIndex |-> two,
      tier |-> IF exact # -1 THEN 1
               ELSE IF four # -1 THEN 2
               ELSE IF two # -1 THEN 3
               ELSE 0,
      matched |-> IF exact # -1 THEN normalizedSearch
                  ELSE IF four # -1 THEN KeyWords(normalizedSearch, FourWords)
                  ELSE IF two # -1 THEN KeyWords(normalizedSearch, TwoWords)
                  ELSE <<>>,
      triedFour |-> tryFour,
      triedTwo |-> tryTwo]

(***************************************************************************)
(* renderTextLayer: from character offsets to text items.                 *)
(***************************************************************************)
\* The "find start item" loop, from item i (0-based) with charCount characters before it.
RECURSIVE FindStartFrom(_, _, _, _)
FindStartFrom(textItems, searchIndex, i, charCount) ==
  IF i >= Len(textItems) THEN [startItemIndex |-> -1, startCharOffset |-> 0]
  ELSE LET itemLength == Len(ToLowerCase(textItems[i + 1].str))
       IN IF charCount <= searchIndex /\ charCount + itemLength > searchIndex
          THEN [startItemIndex |-> i, startCharOffset |-> searchIndex - charCount]
          ELSE FindStartFrom(textItems, searchIndex, i + 1, charCount + itemLength + 1)

FindStart(textItems, searchIndex) == FindStartFrom(textItems, searchIndex, 0, 0)

\* Mutant of EndCharIndex: the length of the search text is left out.
EndCharIndex_StartOnly(searchIndex, normalizedSearch) == searchIndex

\* const endCharIndex = searchIndex + normalizedSearch.length
EndCharIndex(searchIndex, normalizedSearch) == searchIndex + Len(normalizedSearch)

\* The "find end item" loop.
RECURSIVE FindEndFrom(_, _, _, _)
FindEndFrom(textItems, endCharIndex, i, charCount) ==
  IF i >= Len(textItems) THEN -1
  ELSE LET itemLength == Len(textItems[i + 1].str)
       IN IF charCount + itemLength >= endCharIndex
          THEN i
          ELSE FindEndFrom(textItems, endCharIndex, i + 1, charCount + itemLength + 1)

FindEnd(textItems, endCharIndex) == FindEndFrom(textItems, endCharIndex, 0, 0)

\* charCountBeforeItem for item i (0-based): the inner loop over j < i.
RECURSIVE CharCountBeforeItem(_, _)
CharCountBeforeItem(textItems, i) ==
  IF i = 0 THEN 0
  ELSE CharCountBeforeItem(textItems, i - 1) + Len(textItems[i].str) + 1

EndOffset(textItems, endItemIndex, endCharIndex) ==
  Min(endCharIndex - CharCountBeforeItem(textItems, endItemIndex),
      Len(textItems[endItemIndex + 1].str))

(***************************************************************************)
(* renderTextLayer: the bounding box and the published rectangle.         *)
(* A box whose bounds are still the initial Infinity / -Infinity has      *)
(* infinite = TRUE; the rectangle computed from it has NaN fields, which  *)
(* is nan = TRUE.                                                          *)
(***************************************************************************)
InitialBox == [infinite |-> TRUE, minX |-> 0, minY |-> 0, maxX |-> 0, maxY |-> 0]

MathMin(infinite, a, b) == IF infinite THEN b ELSE Min(a, b)
MathMax(infinite, a, b) == IF infinite THEN b ELSE Max(a, b)

ItemStartX(textItems, i, startItemIndex, startCharOffset) ==
  LET item == textItems[i + 1]
  IN IF i = startItemIndex
     THEN item.x + startCharOffset * CharWidth(item.fontSize)
     ELSE item.x

\* Mutant of ItemEndX: the end offset of the last item is ignored.
ItemEndX_FullWidth(textItems, i, endItemIndex, endCharIndex) ==
  textItems[i + 1].x + textItems[i + 1].width

ItemEndX(textItems, i, endItemIndex, endCharIndex) ==
  LET item == textItems[i + 1]
  IN IF i = endItemIndex
     THEN item.x + EndOffset(textItems, i, endCharIndex) * CharWidth(item.fontSize)
     ELSE item.x + item.width

\* The loop "for (i = startItemIndex; i <= endItemIndex && i < textItems.length; i++)".
RECURSIVE BoundingBoxFrom(_, _, _, _, _, _, _)
BoundingBoxFrom(textItems, startItemIndex, startCharOffset, endItemIndex, endCharIndex, i, box) ==
  IF ~(i <= endItemIndex /\ i < Len(textItems)) THEN box
  ELSE LET item == textItems[i + 1]
       IN BoundingBoxFrom(textItems, startItemIndex, startCharOffset, endItemIndex,
            endCharIndex, i + 1,
            [infinite |-> FALSE,
             minX |-> MathMin(box.infinite, box.minX,
                              ItemStartX(textItems, i, startItemIndex, startCharOffset)),
             maxX |-> MathMax(box.infinite, box.maxX,
                              ItemEndX(textItems, i, endItemIndex, endCharIndex)),
             minY |-> MathMin(box.infinite, box.minY, item.y - 10 * item.fontSize),
             maxY |-> MathMax(box.infinite, box.maxY, item.y)])

BoundingBox(textItems, startItemIndex, startCharOffset, endItemIndex, endCharIndex) ==
  BoundingBoxFrom(textItems, startItemIndex, startCharOffset, endItemIndex, endCharIndex,
    startItemIndex, InitialBox)

\* viewport.convertToViewportRectangle of an unrotated viewport [scale, height]:
\* both corners go through x -> scale * x, y -> height - scale * y.
ConvertToViewportRectangle(viewport, box) ==
  <<viewport.scale * box.minX,
    10 * viewport.height - viewport.scale * box.minY,
    viewport.scale * box.maxX,
    10 * viewport.height - viewport.scale * box.maxY>>

\* Mutant of RectOf: the fields are not clamped at 0.
RectOf_Unclamped(viewport, box) ==
  IF box.infinite
  THEN [nan |-> TRUE, x |-> 0, y |-> 0, width |-> 0, height |-> 0]
  ELSE LET rect == ConvertToViewportRectangle(viewport, box)
       IN [nan |-> FALSE,
           x |-> rect[1],
           y |-> 10 * viewport.height - rect[4],
           width |-> rect[3] - rect[1],
           height |-> rect[4] - rect[2]]

RectOf(viewport, box) ==
  IF box.infinite
  THEN [nan |-> TRUE, x |-> 0, y |-> 0, width |-> 0, height |-> 0]
  ELSE LET rect == ConvertToViewportRectangle(viewport, box)
       IN [nan |-> FALSE,
           x |-> Max(0, rect[1]),
           y |-> Max(0, 10 * viewport.height - rect[4]),
           width |-> Max(0, rect[3] - rect[1]),
           height |-> Max(0, rect[4] - rect[2])]

(***************************************************************************)
(* The highlight overlay: one div per published rectangle, its width and  *)
(* height in tenths of a pixel like the rectangle's.                      *)
(***************************************************************************)
MinOverlayWidth == 10
MinOverlayHeight == 8

\* Mutant of OverlayDiv: the div takes the rectangle's width and height.
OverlayDiv_NoMinimum(rect) ==
  [nan |-> rect.nan, left |-> rect.x, top |-> rect.y,
   width |-> rect.width, height |-> rect.height]

\* style of the div drawn for rect: Math.max(rect.width, 10) and
\* Math.max(rect.height, 8), which are NaN for a NaN rectangle.
OverlayDiv(rect) ==
  [nan |-> rect.nan, left |-> rect.x, top |-> rect.y,
   width |-> Max(rect.width, 10 * MinOverlayWidth),
   height |-> Max(rect.height, 10 * MinOverlayHeight)]

\* highlightRects.map(...)
Overlay(rects) == [k \in 1..Len(rects) |-> OverlayDiv(rects[k])]

(***************************************************************************)
(* renderTextLayer after getTextContent has resolved: every local of the  *)
(* function, and rects, the argument of the setHighlightRects call.       *)
(***************************************************************************)
NoSearch ==
  [searchIndex |-> -1, tier |-> 0, matched |-> <<>>, triedFour |-> FALSE, triedTwo |-> FALSE]

RenderTextLayer(rawItems, viewport, searchText) ==
  LET normalizedSearch == NormalizeSearch(searchText)
      rejected == Rejected(normalizedSearch)
      textItems == BuildTextItems(rawItems)
      normalizedFullText == NormalizedFullText(textItems)
      found == FindSearchIndex(normalizedFullText, normalizedSearch)
      searchIndex == found.searchIndex
      start == FindStart(textItems, searchIndex)
      endCharIndex == EndCharIndex(searchIndex, normalizedSearch)
      endItemIndex == FindEnd(textItems, endCharIndex)
      mapped == searchIndex # -1 /\ start.startItemIndex # -1 /\ endItemIndex # -1
      box == BoundingBox(textItems, start.startItemIndex, start.startCharOffset,
                         endItemIndex, endCharIndex)
  IN IF rejected
     THEN [normalizedSearch |-> normalizedSearch, rejected |-> TRUE, searched |-> FALSE,
           textItems |-> <<>>, fullText |-> <<>>, normalizedFullText |-> <<>>,
           found |-> NoSearch,
           startItemIndex |-> -1, startCharOffset |-> 0, endCharIndex |-> -1,
           endItemIndex |-> -1, box |-> InitialBox, rects |-> <<>>]
     ELSE [normalizedSearch |-> normalizedSearch, rejected |-> FALSE, searched |-> TRUE,
           textItems |-> textItems, fullText |-> FullText(textItems),
           normalizedFullText |-> normalizedFullText, found |-> found,
           startItemIndex |-> IF searchIndex # -1 THEN start.startItemIndex ELSE -1,
           startCharOffset |-> IF searchIndex # -1 THEN start.startCharOffset ELSE 0,
           endCharIndex |-> IF searchIndex # -1 THEN endCharIndex ELSE -1,
           endItemIndex |-> IF searchIndex # -1 THEN endItemIndex ELSE -1,
           box |-> IF mapped THEN box ELSE InitialBox,
           rects |-> IF mapped THEN <<RectOf(viewport, box)>> ELSE <<>>]

(***************************************************************************)
(* Inputs of the highlight computation.                                    *)
(***************************************************************************)
MaxWords == 5
MaxItems == 2

Words == {<<"a">>, <<"b", "c">>}

WordLists(n) == UNION {[1..k -> Words] : k \in 0..n}

ToUpperChar(c) ==
  CASE c = "a" -> "A"
    [] c = "b" -> "B"
    [] c = "c" -> "C"
    [] OTHER -> c

\* The words with two spaces between them.
JoinDouble(xs) == JoinFrom(xs, <<" ", " ">>, 1, Len(xs))

\* A search text as the citation source sends it: the words single-spaced, or
\* the same words in upper case with a leading space, doubled spaces and a
\* trailing tab.
PlainText(ws) == Join(ws)
MessyText(ws) ==
  LET t == JoinDouble(ws)
  IN <<" ">> \o [i \in 1..Len(t) |-> ToUpperChar(t[i])] \o <<"\t">>

\* Word lists whose single-spaced text is just below or just above the
\* limit of 100 characters: of "a" (the limit falls on a space) and of "bc"
\* (it falls inside a word).
LongWordLists ==
  {[i \in 1..n |-> <<"a">>] : n \in {MaxSearchLength \div 2, MaxSearchLength \div 2 + 1}}
    \cup {[i \in 1..n |-> <<"b", "c">>] :
            n \in {MaxSearchLength \div 3, MaxSearchLength \div 3 + 1}}

\* Search texts of two words that are longer than the thresholds of the
\* prefix searches: "bc abc" and "bc abcabcabc".
TwoWordTexts ==
  { <<"b", "c", " ", "a", "b", "c">>,
    <<"b", "c", " ", "a", "b", "c", "a", "b", "c", "a", "b", "c">> }

SearchTexts == {PlainText(ws) : ws \in WordLists(MaxWords) \cup LongWordLists}
                 \cup {MessyText(ws) : ws \in WordLists(MaxWords) \cup LongWordLists}
                 \cup TwoWordTexts

\* The strings of the fragments getTextContent returns.
FragmentStrings ==
  { <<"a">>,
    <<"b", "c">>,
    <<"a", " ", "a", " ", "b", "c">>,
    <<"B", "c", " ", " ", "a">>,
    <<"b", "c", " ">>,
    <<" ">>,
    <<>> }

\* Fragment i (0-based) of a page sits at x = 50 + 100 * i on the baseline
\* y = 700, in a 10-unit font.
FragmentAt(str, i) == [str |-> str, transform |-> <<10, 0, 0, 10, 50 + 100 * i, 700>>]

Pages ==
  UNION {{[i \in 1..k |-> FragmentAt(strs[i], i - 1)] : strs \in [1..k -> FragmentStrings]}
         : k \in 0..MaxItems}

\* The viewport of the rendered page: scale 1, 800 units high.
PageViewport == [scale |-> 1, height |-> 800]

(***************************************************************************)
(* Inputs whose geometry varies.  The transforms: a 10-unit font; a       *)
(* 5-unit font further right; a fragment that starts left of the page     *)
(* origin, one line lower; a fragment left of and below the page origin   *)
(* whose transform[0] is 0 and transform[3] negative; a rotated one with   *)
(* transform[0] and transform[3] both 0.  The pages without transform     *)
(* have one fragment, for which item.transform is missing.                *)
(***************************************************************************)
Transforms ==
  { <<10, 0, 0, 10, 50, 700>>,
    <<5, 0, 0, 5, 150, 700>>,
    <<10, 0, 0, 10, -20, 680>>,
    <<0, 0, 0, -8, -30, -5>>,
    <<0, 10, -10, 0, 60, 20>> }

GeometryStrings == {<<"a", " ", "a", " ", "b", "c">>, <<"b", "c">>}

GeometryFragments == [str : GeometryStrings, transform : Transforms]

GeometryPages == UNION {[1..k -> GeometryFragments] : k \in 0..MaxItems}

NoTransformPages == {<<[str |-> str, transform |-> Null]>> : str \in GeometryStrings}

GeometryTexts ==
  { <<"b", "c">>,
    <<"a", " ", "b", "c">>,
    <<"b", "c", " ", "b", "c">>,
    <<"b", "c", " ", "a", " ", "a">>,
    <<"a", " ", "a", " ", "b", "c", " ", "a">> }

\* The viewports: the page at scale 1, at scale 2, and a viewport lower than
\* the text of the page is high.
Viewports ==
  { [scale |-> 1, height |-> 800],
    [scale |-> 2, height |-> 1600],
    [scale |-> 1, height |-> 600] }

(***************************************************************************)
(* The document shown by the viewer: two pages, and the search texts the  *)
(* parent passes as highlightText (Null: no text to highlight).           *)
(***************************************************************************)
MaxTasks == 2

\* The files the parent passes as fileUrl: the document shown at first and
\* another one.
FirstFile == "A"
OtherFile == "B"
FileUrls == {FirstFile, OtherFile}

DocNumPages == 2
OtherNumPages == 1

\* pdfDoc.numPages of the document of file u.
NumPagesOf(u) == IF u = FirstFile THEN DocNumPages ELSE OtherNumPages

DocPage(p) ==
  IF p = 1
  THEN <<FragmentAt(<<"a", " ", "a", " ", "b", "c">>, 0), FragmentAt(<<"b", "c">>, 1)>>
  ELSE <<FragmentAt(<<"b", "c">>, 0), FragmentAt(<<"a", " ", "a", " ", "b", "c">>, 1)>>

HighlightTexts == {<<"b", "c">>, <<"a", " ", "a">>}

(***************************************************************************)
(* State.                                                                  *)
(*   pdfjsLoaded, pdf, currentPage, numPages, loading, error,             *)
(*   highlightRects: the component's useState cells;                      *)
(*   fileUrl, highlightPage, highlightText: its props;                    *)
(*   loads: for each file, the getDocument promise of the load effect run *)
(*     for it: "none" (not called), "pending", "resolved" or "rejected";  *)
(*   notified: the argument of the last onPageChange call, 0 before the   *)
(*     first one;                                                          *)
(*   tasks: the renderPage invocations started by the render-page effect *)
(*     that can still act, oldest first, followed by the most recently    *)
(*     started one (kept after it has ended); each with the page and text *)
(*     its closure captured and the await it is suspended at, or how it   *)
(*     ended: "published" (setHighlightRects on the normal path),         *)
(*     "caught" (setHighlightRects([]) in the catch of renderTextLayer),  *)
(*     "returned" (no call), "failed" (outer catch);                      *)
(*   searchText, rawItems, viewport, out: one call of renderTextLayer,    *)
(*     its search text, the fragments of its page, its viewport, and      *)
(*     (once it has run) its locals;                                       *)
(*   loop: the same call run one loop iteration at a time: the loop it is *)
(*     in (pc), its loop counters and its locals.                          *)
(***************************************************************************)
VARIABLES pdfjsLoaded, pdf, currentPage, numPages, loading, error, highlightRects,
          fileUrl, highlightPage, highlightText, loads, notified, tasks,
          searchText, rawItems, viewport, out, loop

viewerVars == <<pdfjsLoaded, pdf, currentPage, numPages, loading, error, highlightRects,
                fileUrl, highlightPage, highlightText, loads, notified, tasks>>
matchVars == <<searchText, rawItems, viewport, out, loop>>
vars == <<pdfjsLoaded, pdf, currentPage, numPages, loading, error, highlightRects,
          fileUrl, highlightPage, highlightText, loads, notified, tasks,
          searchText, rawItems, viewport, out, loop>>

\* The locals of renderTextLayer before it is called.
IdleLoop ==
  [pc |-> "idle", i |-> 0, j |-> 0, charCount |-> 0, normalizedSearch |-> <<>>,
   textItems |-> <<>>, searchIndex |-> -1, startItemIndex |-> -1, startCharOffset |-> 0,
   endCharIndex |-> -1, endItemIndex |-> -1, charCountBeforeItem |-> 0,
   box |-> InitialBox, rects |-> <<>>]

\* The state of a freshly mounted component whose parent passes no highlight.
ViewerInit ==
  /\ pdfjsLoaded = FALSE
  /\ pdf = Null
  /\ currentPage = 1
  /\ numPages = 0
  /\ loading = FALSE
  /\ error = Null
  /\ highlightRects = <<>>
  /\ fileUrl = FirstFile
  /\ highlightPage = 0
  /\ highlightText = <<>>
  /\ loads = [u \in FileUrls |-> "none"]
  /\ notified = 0
  /\ tasks = <<>>

(***************************************************************************)
(* The highlight computation on its own.                                   *)
(***************************************************************************)
MatchInit ==
  /\ ViewerInit
  /\ searchText \in SearchTexts
  /\ rawItems \in Pages
  /\ viewport = PageViewport
  /\ out = <<>>
  /\ loop = IdleLoop

\* renderTextLayer runs to its setHighlightRects call.
RunRenderTextLayer ==
  /\ out = <<>>
  /\ out' = <<RenderTextLayer(rawItems, viewport, searchText)>>
  /\ UNCHANGED <<searchText, rawItems, viewport, loop>>
  /\ UNCHANGED viewerVars

MatchNext == RunRenderTextLayer

SpecMatch == MatchInit /\ [][MatchNext]_vars

\* The same call on the pages and viewports whose geometry varies.
GeometryInit ==
  /\ ViewerInit
  /\ searchText \in GeometryTexts
  /\ \/ rawItems \in GeometryPages
     \/ rawItems \in NoTransformPages
  /\ viewport \in Viewports
  /\ out = <<>>
  /\ loop = IdleLoop

SpecGeometry == GeometryInit /\ [][MatchNext]_vars

(***************************************************************************)
(* renderTextLayer after getTextContent has resolved, one loop iteration  *)
(* per step.  loop.pc is "normalize" (lines 159-168), "build" (the        *)
(* forEach of line 180), "findStart" (228), "findEnd" (244), "bbox" (262),*)
(* "inner" (275) or "published" (setHighlightRects has been called with   *)
(* loop.rects).                                                            *)
(***************************************************************************)
LoopTexts == GeometryTexts \cup {<<"a">>}

LoopInit ==
  /\ ViewerInit
  /\ searchText \in LoopTexts
  /\ rawItems \in Pages
  /\ viewport = PageViewport
  /\ out = <<>>
  /\ loop = [IdleLoop EXCEPT !.pc = "normalize"]

\* Lines 285-288.
ExtendBox(box, item, itemStartX, itemEndX) ==
  [infinite |-> FALSE,
   minX |-> MathMin(box.infinite, box.minX, itemStartX),
   maxX |-> MathMax(box.infinite, box.maxX, itemEndX),
   minY |-> MathMin(box.infinite, box.minY, item.y - 10 * item.fontSize),
   maxY |-> MathMax(box.infinite, box.maxY, item.y)]

\* The locals when the start loop is left: endCharIndex is computed and the
\* end loop starts at item 0.
EnterFindEnd(l) ==
  [l EXCEPT !.pc = "findEnd", !.i = 0, !.charCount = 0,
            !.endCharIndex = EndCharIndex(l.searchIndex, l.normalizedSearch)]

\* The locals when the end loop is left: the box loop starts at the start
\* item, or rects is published empty.
LeaveFindEnd(l) ==
  IF l.startItemIndex # -1 /\ l.endItemIndex # -1
  THEN [l EXCEPT !.pc = "bbox", !.i = l.startItemIndex, !.box = InitialBox]
  ELSE [l EXCEPT !.pc = "published"]

\* Lines 159-168: the search text is normalized; a rejected one publishes [].
NormalizeStep ==
  /\ loop.pc = "normalize"
  /\ LET normalizedSearch == NormalizeSearch(searchText)
     IN loop' = [loop EXCEPT !.normalizedSearch = normalizedSearch,
                             !.pc = IF Rejected(normalizedSearch)
                                    THEN "published" ELSE "build"]
  /\ UNCHANGED <<searchText, rawItems, viewport, out>>
  /\ UNCHANGED viewerVars

\* One call of the forEach callback (lines 180-198).
BuildStep ==
  /\ loop.pc = "build"
  /\ loop.i < Len(rawItems)
  /\ LET item == rawItems[loop.i + 1]
     IN loop' = [loop EXCEPT !.i = loop.i + 1,
                             !.textItems = IF KeepsItem(item)
                                           THEN Append(loop.textItems, TextItemOf(item))
                                           ELSE loop.textItems]
  /\ UNCHANGED <<searchText, rawItems, viewport, out>>
  /\ UNCHANGED viewerVars

\* Lines 202-220: the tiered search; without a match rects is published empty.
SearchStep ==
  /\ loop.pc = "build"
  /\ loop.i = Len(rawItems)
  /\ LET searchIndex ==
           FindSearchIndex(NormalizedFullText(loop.textItems),
                           loop.normalizedSearch).searchIndex
     IN loop' = IF searchIndex = -1
                THEN [loop EXCEPT !.pc = "published"]
                ELSE [loop EXCEPT !.pc = "findStart", !.searchIndex = searchIndex,
                                  !.i = 0, !.charCount = 0]
  /\ UNCHANGED <<searchText, rawItems, viewport, out>>
  /\ UNCHANGED viewerVars

\* Mutant of FindStartStep: the loop counts an item that does not hold the
\* start but does not move on to the next one.
FindStartStep_NoAdvance ==
  /\ loop.pc = "findStart"
  /\ IF loop.i >= Len(loop.textItems)
     THEN loop' = EnterFindEnd(loop)
     ELSE LET itemLength == Len(ToLowerCase(loop.textItems[loop.i + 1].str))
          IN IF loop.charCount <= loop.searchIndex
                  /\ loop.charCount + itemLength > loop.searchIndex
             THEN loop' = EnterFindEnd([loop EXCEPT
                            !.startItemIndex = loop.i,
                            !.startCharOffset = loop.searchIndex - loop.charCount])
             ELSE loop' = [loop EXCEPT !.charCount = loop.charCount + itemLength + 1]
  /\ UNCHANGED <<searchText, rawItems, viewport, out>>
  /\ UNCHANGED viewerVars

\* One test of the start loop (lines 228-239): it is left at the end of the
\* items or by the break, else it goes on to the next item.
FindStartStep ==
  /\ loop.pc = "findStart"
  /\ IF loop.i >= Len(loop.textItems)
     THEN loop' = EnterFindEnd(loop)
     ELSE LET itemLength == Len(ToLowerCase(loop.textItems[loop.i + 1].str))
          IN IF loop.charCount <= loop.searchIndex
                  /\ loop.charCount + itemLength > loop.searchIndex
             THEN loop' = EnterFindEnd([loop EXCEPT
                            !.startItemIndex = loop.i,
                            !.startCharOffset = loop.searchIndex - loop.charCount])
             ELSE loop' = [loop EXCEPT !.i = loop.i + 1,
                                       !.charCount = loop.charCount + itemLength + 1]
  /\ UNCHANGED <<searchText, rawItems, viewport, out>>
  /\ UNCHANGED viewerVars


\* One test of the end loop (lines 244-253).
FindEndStep ==
  /\ loop.pc = "findEnd"
  /\ IF loop.i >= Len(loop.textItems)
     THEN loop' = LeaveFindEnd(loop)
     ELSE LET itemLength == Len(loop.textItems[loop.i + 1].str)
          IN IF loop.charCount + itemLength >= loop.endCharIndex
             THEN loop' = LeaveFindEnd([loop EXCEPT !.endItemIndex = loop.i])
             ELSE loop' = [loop EXCEPT !.i = loop.i + 1,
                                       !.charCount = loop.charCount + itemLength + 1]
  /\ UNCHANGED <<searchText, rawItems, viewport, out>>
  /\ UNCHANGED viewerVars

\* One test of the box loop (lines 262-289): past the last item the rectangle
\* is pushed and published (292-302); the end item goes through the inner
\* loop first; any other item extends the box.
BBoxStep ==
  /\ loop.pc = "bbox"
  /\ IF ~(loop.i <= loop.endItemIndex /\ loop.i < Len(loop.textItems))
     THEN loop' = [loop EXCEPT !.pc = "published",
                               !.rects = Append(loop.rects, RectOf(viewport, loop.box))]
     ELSE IF loop.i = loop.endItemIndex
     THEN loop' = [loop EXCEPT !.pc = "inner", !.j = 0, !.charCountBeforeItem = 0]
     ELSE LET item == loop.textItems[loop.i + 1]
              itemStartX == IF loop.i = loop.startItemIndex
                            THEN item.x + loop.startCharOffset * CharWidth(item.fontSize)
                            ELSE item.x
          IN loop' = [loop EXCEPT !.i = loop.i + 1,
                                  !.box = ExtendBox(loop.box, item, itemStartX,
                                                    item.x + item.width)]
  /\ UNCHANGED <<searchText, rawItems, viewport, out>>
  /\ UNCHANGED viewerVars

\* One test of the inner loop (lines 275-277) of the end item; when it is
\* left, the end offset is taken and the box extended (278-288).
InnerStep ==
  /\ loop.pc = "inner"
  /\ IF loop.j < loop.i
     THEN loop' = [loop EXCEPT
                     !.j = loop.j + 1,
                     !.charCountBeforeItem =
                        loop.charCountBeforeItem + Len(loop.textItems[loop.j + 1].str) + 1]
     ELSE LET item == loop.textItems[loop.i + 1]
              itemStartX == IF loop.i = loop.startItemIndex
                            THEN item.x + loop.startCharOffset * CharWidth(item.fontSize)
                            ELSE item.x
              endOffset == Min(loop.endCharIndex - loop.charCountBeforeItem, Len(item.str))
          IN loop' = [loop EXCEPT
                        !.pc = "bbox",
                        !.i = loop.i + 1,
                        !.box = ExtendBox(loop.box, item, itemStartX,
                                          item.x + endOffset * CharWidth(item.fontSize))]
  /\ UNCHANGED <<searchText, rawItems, viewport, out>>
  /\ UNCHANGED viewerVars

LoopNext ==
  \/ NormalizeStep
  \/ BuildStep
  \/ SearchStep
  \/ FindStartStep
  \/ FindEndStep
  \/ BBoxStep
  \/ InnerStep

SpecLoops == LoopInit /\ [][LoopNext]_vars

(***************************************************************************)
(* renderTextLayer called again and again, as the render-page effect does *)
(* for one request after the other: each call has its own arguments and   *)
(* declares its locals anew (lines 155, 171, 222-225, 257-260).  Here out *)
(* is the list of the calls that have returned, each with its arguments   *)
(* and the list it passed to setHighlightRects.                           *)
(***************************************************************************)
MaxCalls == 3

RepeatTexts ==
  { <<"b", "c">>,
    <<"a", " ", "b", "c">>,
    <<"b", "c", " ", "b", "c">> }

RepeatViewports == {[scale |-> 1, height |-> 800], [scale |-> 2, height |-> 1600]}

RepeatInit ==
  /\ ViewerInit
  /\ searchText \in RepeatTexts
  /\ rawItems \in {DocPage(p) : p \in 1..DocNumPages}
  /\ viewport \in RepeatViewports
  /\ out = <<>>
  /\ loop = [IdleLoop EXCEPT !.pc = "normalize"]

\* What a call that has returned leaves behind.
Returned ==
  [searchText |-> searchText, rawItems |-> rawItems, viewport |-> viewport,
   rects |-> loop.rects]

\* Mutant of CallAgain: rects of the call before is still there when
\* the next call starts.
CallAgain_KeepsRects(text, page, v) ==
  /\ loop.pc = "published"
  /\ Len(out) < MaxCalls - 1
  /\ out' = Append(out, Returned)
  /\ searchText' = text
  /\ rawItems' = DocPage(page)
  /\ viewport' = v
  /\ loop' = [IdleLoop EXCEPT !.pc = "normalize", !.rects = loop.rects]
  /\ UNCHANGED viewerVars

\* The call has returned and renderTextLayer is called for the next request.
CallAgain(text, page, v) ==
  /\ loop.pc = "published"
  /\ Len(out) < MaxCalls - 1
  /\ out' = Append(out, Returned)
  /\ searchText' = text
  /\ rawItems' = DocPage(page)
  /\ viewport' = v
  /\ loop' = [IdleLoop EXCEPT !.pc = "normalize"]
  /\ UNCHANGED viewerVars

RepeatNext ==
  \/ LoopNext
  \/ \E text \in RepeatTexts, page \in 1..DocNumPages, v \in RepeatViewports :
       CallAgain(text, page, v)

SpecRepeat == RepeatInit /\ [][RepeatNext]_vars


(***************************************************************************)
(* The component.                                                          *)
(***************************************************************************)
\* The canvas, the overlay and the text layer are rendered (and their refs
\* set) only by the final return of the component function.
CanvasMounted == pdfjsLoaded /\ ~loading /\ error = Null /\ pdf # Null

\* What renderTextLayer passes to setHighlightRects for a page and a text.
ComputedRects(page, text) == RenderTextLayer(DocPage(page), PageViewport, text).rects

\* An invocation of renderPage that is suspended at an await.
InFlight(task) == task.pc \in {"getPage", "render", "getTextContent"}

\* The render-page effect after a commit with the given state: it starts
\* renderPage, which captures the page and the text, unless its guard returns.
StartRenderPage(ts, mounted, page, text) ==
  IF mounted
  THEN Append(SelectSeq(ts, InFlight), [page |-> page, text |-> text, pc |-> "getPage"])
  ELSE ts

\* Invocation g moves on to pc; an ended invocation other than the most
\* recently started one can no longer act and is dropped.
Advance(g, pc) ==
  LET ts == [tasks EXCEPT ![g].pc = pc]
  IN SelectSeq(SubSeq(ts, 1, Len(ts) - 1), InFlight) \o <<ts[Len(ts)]>>

\* loadPDFJS() of the first effect resolves: setPdfjsLoaded(true); the load
\* effect then runs with fileUrl set: setLoading(true), setError(null), and
\* getDocument is called.
PdfjsResolved ==
  /\ ~pdfjsLoaded
  /\ pdfjsLoaded' = TRUE
  /\ loading' = TRUE
  /\ error' = Null
  /\ loads' = [loads EXCEPT ![fileUrl] = "pending"]
  /\ UNCHANGED <<pdf, currentPage, numPages, highlightRects, fileUrl, highlightPage,
                 highlightText, notified, tasks>>
  /\ UNCHANGED matchVars

\* The parent passes another fileUrl, one not loaded before; with PDF.js
\* loaded the load effect runs: setLoading(true), setError(null), and
\* getDocument is called for it.  A load that is pending goes on.
SetFileUrl(u) ==
  /\ u # fileUrl
  /\ loads[u] = "none"
  /\ fileUrl' = u
  /\ IF pdfjsLoaded
     THEN /\ loading' = TRUE
          /\ error' = Null
          /\ loads' = [loads EXCEPT ![u] = "pending"]
     ELSE UNCHANGED <<loading, error, loads>>
  /\ UNCHANGED <<pdfjsLoaded, pdf, currentPage, numPages, highlightRects, highlightPage,
                 highlightText, notified, tasks>>
  /\ UNCHANGED matchVars

\* loadingTask.promise of the load of file u resolves.  After the commit the
\* navigate effect and the render-page effect run; when the navigate effect
\* changes currentPage, the render-page effect runs again after the next commit.
LoadResolved(u) ==
  /\ loads[u] = "pending"
  /\ loads' = [loads EXCEPT ![u] = "resolved"]
  /\ pdf' = u
  /\ numPages' = NumPagesOf(u)
  /\ loading' = FALSE
  /\ LET navigates == highlightPage # 0 /\ highlightPage >= 1 /\ highlightPage <= NumPagesOf(u)
         first == StartRenderPage(tasks, error = Null, 1, highlightText)
     IN /\ currentPage' = IF navigates THEN highlightPage ELSE 1
        /\ notified' = IF navigates THEN highlightPage ELSE notified
        /\ tasks' = IF navigates /\ highlightPage # 1
                    THEN StartRenderPage(first, error = Null, highlightPage, highlightText)
                    ELSE first
        /\ Len(tasks') <= MaxTasks
  /\ UNCHANGED <<pdfjsLoaded, error, highlightRects, fileUrl, highlightPage, highlightText>>
  /\ UNCHANGED matchVars

\* loadingTask.promise of the load of file u rejects.
LoadRejected(u) ==
  /\ loads[u] = "pending"
  /\ loads' = [loads EXCEPT ![u] = "rejected"]
  /\ error' = "Failed to load PDF"
  /\ loading' = FALSE
  /\ UNCHANGED <<pdfjsLoaded, pdf, currentPage, numPages, highlightRects, fileUrl,
                 highlightPage, highlightText, notified, tasks>>
  /\ UNCHANGED matchVars

\* Mutant of SetHighlightText: the effect clears the published rectangles
\* before it starts renderPage.
SetHighlightText_ClearsFirst(text) ==
  /\ text # highlightText
  /\ highlightText' = text
  /\ tasks' = StartRenderPage(tasks, CanvasMounted, currentPage, text)
  /\ Len(tasks') <= MaxTasks
  /\ highlightRects' = <<>>
  /\ UNCHANGED <<pdfjsLoaded, pdf, currentPage, numPages, loading, error,
                 highlightPage, fileUrl, loads, notified>>
  /\ UNCHANGED matchVars

\* The parent passes another highlightText (<<>>: none); the render-page
\* effect runs.
SetHighlightText(text) ==
  /\ text # highlightText
  /\ highlightText' = text
  /\ tasks' = StartRenderPage(tasks, CanvasMounted, currentPage, text)
  /\ Len(tasks') <= MaxTasks
  /\ UNCHANGED <<pdfjsLoaded, pdf, currentPage, numPages, loading, error, highlightRects,
                 highlightPage, fileUrl, loads, notified>>
  /\ UNCHANGED matchVars

\* Mutant of SetHighlightPage: the page is not compared with numPages.
SetHighlightPage_NoUpperBound(p) ==
  /\ p # highlightPage
  /\ highlightPage' = p
  /\ LET navigates == p # 0 /\ pdf # Null /\ p >= 1
     IN /\ currentPage' = IF navigates THEN p ELSE currentPage
        /\ notified' = IF navigates THEN p ELSE notified
        /\ tasks' = IF navigates /\ p # currentPage
                    THEN StartRenderPage(tasks, CanvasMounted, p, highlightText)
                    ELSE tasks
  /\ Len(tasks') <= MaxTasks
  /\ UNCHANGED <<pdfjsLoaded, pdf, numPages, loading, error, highlightRects,
                 highlightText, fileUrl, loads>>
  /\ UNCHANGED matchVars

\* The parent passes another highlightPage (0: none); the navigate effect
\* runs, and the render-page effect when currentPage changes.
SetHighlightPage(p) ==
  /\ p # highlightPage
  /\ highlightPage' = p
  /\ LET navigates == p # 0 /\ pdf # Null /\ p >= 1 /\ p <= numPages
     IN /\ currentPage' = IF navigates THEN p ELSE currentPage
        /\ notified' = IF navigates THEN p ELSE notified
        /\ tasks' = IF navigates /\ p # currentPage
                    THEN StartRenderPage(tasks, CanvasMounted, p, highlightText)
                    ELSE tasks
  /\ Len(tasks') <= MaxTasks
  /\ UNCHANGED <<pdfjsLoaded, pdf, numPages, loading, error, highlightRects,
                 highlightText, fileUrl, loads>>
  /\ UNCHANGED matchVars

\* A click on Previous.
PreviousPage ==
  /\ CanvasMounted
  /\ currentPage > 1
  /\ currentPage' = currentPage - 1
  /\ notified' = currentPage - 1
  /\ tasks' = StartRenderPage(tasks, TRUE, currentPage - 1, highlightText)
  /\ Len(tasks') <= MaxTasks
  /\ UNCHANGED <<pdfjsLoaded, pdf, numPages, loading, error, highlightRects,
                 highlightPage, highlightText, fileUrl, loads>>
  /\ UNCHANGED matchVars

\* A click on Next.
NextPage ==
  /\ CanvasMounted
  /\ currentPage < numPages
  /\ currentPage' = currentPage + 1
  /\ notified' = currentPage + 1
  /\ tasks' = StartRenderPage(tasks, TRUE, currentPage + 1, highlightText)
  /\ Len(tasks') <= MaxTasks
  /\ UNCHANGED <<pdfjsLoaded, pdf, numPages, loading, error, highlightRects,
                 highlightPage, highlightText, fileUrl, loads>>
  /\ UNCHANGED matchVars

\* pdf.getPage of invocation g resolves: renderPage goes on to page.render,
\* or returns when there is no canvas.
GetPageResolved(g) ==
  /\ tasks[g].pc = "getPage"
  /\ IF CanvasMounted
     THEN tasks' = Advance(g, "render")
     ELSE tasks' = Advance(g, "returned")
  /\ UNCHANGED <<pdfjsLoaded, pdf, currentPage, numPages, loading, error, highlightRects,
                 highlightPage, highlightText, fileUrl, loads, notified>>
  /\ UNCHANGED matchVars

\* page.render of invocation g resolves: with a text layer, renderTextLayer is
\* called for a captured text and setHighlightRects([]) without one.
RenderResolved(g) ==
  /\ tasks[g].pc = "render"
  /\ IF CanvasMounted /\ tasks[g].text # <<>>
     THEN /\ tasks' = Advance(g, "getTextContent")
          /\ UNCHANGED highlightRects
     ELSE IF CanvasMounted
     THEN /\ tasks' = Advance(g, "published")
          /\ highlightRects' = <<>>
     ELSE /\ tasks' = Advance(g, "returned")
          /\ UNCHANGED highlightRects
  /\ UNCHANGED <<pdfjsLoaded, pdf, currentPage, numPages, loading, error,
                 highlightPage, highlightText, fileUrl, loads, notified>>
  /\ UNCHANGED matchVars

\* pdf.getPage or page.render of invocation g rejects: the catch of renderPage.
PageRejected(g) ==
  /\ tasks[g].pc \in {"getPage", "render"}
  /\ tasks' = Advance(g, "failed")
  /\ error' = "Failed to render page"
  /\ UNCHANGED <<pdfjsLoaded, pdf, currentPage, numPages, loading, highlightRects,
                 highlightPage, highlightText, fileUrl, loads, notified>>
  /\ UNCHANGED matchVars

\* page.getTextContent of invocation g resolves: renderTextLayer computes the
\* rectangles for the captured page and text and publishes them.
TextContentResolved(g) ==
  /\ tasks[g].pc = "getTextContent"
  /\ tasks' = Advance(g, "published")
  /\ highlightRects' = ComputedRects(tasks[g].page, tasks[g].text)
  /\ UNCHANGED <<pdfjsLoaded, pdf, currentPage, numPages, loading, error,
                 highlightPage, highlightText, fileUrl, loads, notified>>
  /\ UNCHANGED matchVars

\* Mutant of TextContentRejected: the rejection is not caught in
\* renderTextLayer and reaches the catch of renderPage.
TextContentRejected_Surfaces(g) ==
  /\ tasks[g].pc = "getTextContent"
  /\ tasks' = Advance(g, "failed")
  /\ error' = "Failed to render page"
  /\ UNCHANGED <<pdfjsLoaded, pdf, currentPage, numPages, loading, highlightRects,
                 highlightPage, highlightText, fileUrl, loads, notified>>
  /\ UNCHANGED matchVars

\* page.getTextContent of invocation g rejects: the catch of renderTextLayer.
TextContentRejected(g) ==
  /\ tasks[g].pc = "getTextContent"
  /\ tasks' = Advance(g, "caught")
  /\ highlightRects' = <<>>
  /\ UNCHANGED <<pdfjsLoaded, pdf, currentPage, numPages, loading, error,
                 highlightPage, highlightText, fileUrl, loads, notified>>
  /\ UNCHANGED matchVars

\* page.getTextContent of invocation g resolves with items the loop over them
\* cannot read (an item that is null: item.str throws a TypeError), for a
\* search text that is not rejected before the loop: the catch of
\* renderTextLayer.
TextLayerThrows(g) ==
  /\ tasks[g].pc = "getTextContent"
  /\ ~Rejected(NormalizeSearch(tasks[g].text))
  /\ tasks' = Advance(g, "caught")
  /\ highlightRects' = <<>>
  /\ UNCHANGED <<pdfjsLoaded, pdf, currentPage, numPages, loading, error,
                 highlightPage, highlightText, fileUrl, loads, notified>>
  /\ UNCHANGED matchVars

Init ==
  /\ ViewerInit
  /\ searchText = <<>>
  /\ rawItems = <<>>
  /\ viewport = PageViewport
  /\ out = <<>>
  /\ loop = IdleLoop

Next ==
  \/ PdfjsResolved
  \/ \E u \in FileUrls : LoadResolved(u)
  \/ \E u \in FileUrls : LoadRejected(u)
  \/ \E text \in HighlightTexts \cup {<<>>} : SetHighlightText(text)
  \/ \E p \in 0..(DocNumPages + 1) : SetHighlightPage(p)
  \/ PreviousPage
  \/ NextPage
  \/ \E g \in 1..Len(tasks) : GetPageResolved(g)
  \/ \E g \in 1..Len(tasks) : RenderResolved(g)
  \/ \E g \in 1..Len(tasks) : PageRejected(g)
  \/ \E g \in 1..Len(tasks) : TextContentResolved(g)
  \/ \E g \in 1..Len(tasks) : TextContentRejected(g)
  \/ \E g \in 1..Len(tasks) : TextLayerThrows(g)

Spec == Init /\ [][Next]_vars

\* The component whose parent passes another file and other pages to go to,
\* and never a text to highlight.
LoadNext ==
  \/ PdfjsResolved
  \/ \E u \in FileUrls : SetFileUrl(u)
  \/ \E u \in FileUrls : LoadResolved(u)
  \/ \E u \in FileUrls : LoadRejected(u)
  \/ \E p \in 0..(DocNumPages + 1) : SetHighlightPage(p)
  \/ PreviousPage
  \/ NextPage
  \/ \E g \in 1..Len(tasks) : GetPageResolved(g)
  \/ \E g \in 1..Len(tasks) : RenderResolved(g)
  \/ \E g \in 1..Len(tasks) : PageRejected(g)

SpecLoad == Init /\ [][LoadNext]_vars

(***************************************************************************)
(* Properties of the highlight computation (checked under SpecMatch).     *)
(***************************************************************************)
Ran == out # <<>>
Accepted == Ran /\ ~out[1].rejected
Matched == Accepted /\ out[1].found.searchIndex # -1

\* pat occurs in text at 0-based index i.
OccursAt(text, pat, i) ==
  /\ i >= 0
  /\ i + Len(pat) <= Len(text)
  /\ \A k \in 1..Len(pat) : text[i + k] = pat[k]

\* The least index at which pat occurs in text, -1 when there is none.
FirstOccurrence(text, pat) ==
  IF \E i \in 0..Len(text) : OccursAt(text, pat, i)
  THEN CHOOSE i \in 0..Len(text) :
         OccursAt(text, pat, i) /\ \A j \in 0..(i - 1) : ~OccursAt(text, pat, j)
  ELSE -1

\* The first n space-separated words of q: q up to its n-th space, all of q
\* when it has fewer than n spaces.
WordPrefix(q, n) ==
  LET spaces == {i \in 1..Len(q) : q[i] = " "}
  IN IF Cardinality(spaces) < n THEN q
     ELSE LET p == CHOOSE i \in spaces : Cardinality({j \in spaces : j < i}) = n - 1
          IN SubSeq(q, 1, p - 1)

\* C5 (monotonic tiering): when the full normalized query occurs in the
\* page's normalized full text, the match start is its first occurrence, found
\* by tier 1, and the four-word and two-word prefixes are not searched for.
C5_FullPhraseFirst ==
  Accepted =>
    LET r == out[1]
        first == FirstOccurrence(r.normalizedFullText, r.normalizedSearch)
    IN first # -1 =>
         /\ r.found.searchIndex = first
         /\ r.found.tier = 1
         /\ ~r.found.triedFour
         /\ ~r.found.triedTwo

\* A full-phrase match whose two-word prefix occurs earlier on the page.
C5_Witness ==
  /\ Matched
  /\ out[1].found.tier = 1
  /\ Len(out[1].normalizedSearch) > TwoWordThreshold
  /\ LET p == FirstOccurrence(out[1].normalizedFullText, WordPrefix(out[1].normalizedSearch, 2))
     IN p # -1 /\ p < out[1].found.searchIndex

\* C6 (tier policy): the match start is the first defined value of the first
\* occurrence of q, then (only for length > 10) of q's first four words, then
\* (only for length > 5) of q's first two words, and -1 otherwise; the
\* four-word search is never attempted for a query of length <= 10.
TierPolicy(text, q) ==
  LET t1 == FirstOccurrence(text, q)
      t2 == FirstOccurrence(text, WordPrefix(q, 4))
      t3 == FirstOccurrence(text, WordPrefix(q, 2))
  IN IF t1 # -1 THEN t1
     ELSE IF Len(q) > 10 /\ t2 # -1 THEN t2
     ELSE IF Len(q) > 5 /\ t3 # -1 THEN t3
     ELSE -1

C6_TierPolicy ==
  Accepted =>
    LET r == out[1]
        q == r.normalizedSearch
    IN /\ r.found.searchIndex = TierPolicy(r.normalizedFullText, q)
       /\ (Len(q) <= 10 => ~r.found.triedFour)
       /\ (Len(q) <= 5 => ~r.found.triedTwo)
       /\ (Len(q) <= 5 /\ FirstOccurrence(r.normalizedFullText, q) = -1
             => r.found.searchIndex = -1)

\* A query of more than 10 characters that is absent from the page and whose
\* four-word prefix is found.
C6_Witness ==
  /\ Matched
  /\ out[1].found.tier = 2
  /\ Len(out[1].normalizedSearch) > 10
  /\ out[1].found.matched # out[1].normalizedSearch

\* C7 (match end): the end character offset is the start plus the length of
\* the string the winning tier searched for.
C7_EndIsStartPlusMatched ==
  Matched => out[1].endCharIndex = out[1].found.searchIndex + Len(out[1].found.matched)

\* C8 (every match yields a rectangle): one rectangle when a tier finds a
\* start index, none when every tier fails.
C8_OneRectPerMatch ==
  Accepted =>
    /\ (out[1].found.searchIndex # -1 => Len(out[1].rects) = 1)
    /\ (out[1].found.searchIndex = -1 => out[1].rects = <<>>)

\* C9 (offset table consistency): the start offset resolves to an item, and
\* the character at startCharOffset of that item is the first character of the
\* matched string; for a full-phrase match the end offset resolves to an item
\* whose character before the end offset is the last character of the match.
C9_OffsetsAgreeWithText ==
  Matched =>
    LET r == out[1]
        m == r.found.matched
    IN /\ r.startItemIndex # -1
       /\ r.startCharOffset < Len(r.textItems[r.startItemIndex + 1].str)
       /\ ToLowerChar(r.textItems[r.startItemIndex + 1].str[r.startCharOffset + 1]) = m[1]
       /\ r.found.tier = 1 =>
            /\ r.endItemIndex # -1
            /\ LET e == EndOffset(r.textItems, r.endItemIndex, r.endCharIndex)
               IN /\ e >= 1
                  /\ ToLowerChar(r.textItems[r.endItemIndex + 1].str[e]) = m[Len(m)]

\* C10 (query rejection boundary): a query is rejected exactly when its
\* normalized form has fewer than 2 characters; a rejected query publishes no
\* rectangle and the page text is not searched; an accepted query of exactly 2
\* characters that occurs on the page is matched by tier 1.
C10_RejectionBoundary ==
  Ran =>
    LET r == out[1]
    IN /\ r.rejected <=> Len(r.normalizedSearch) < 2
       /\ r.rejected => (r.rects = <<>> /\ ~r.searched /\ r.found.tier = 0)
       /\ (Len(r.normalizedSearch) = 2
             /\ FirstOccurrence(NormalizedFullText(BuildTextItems(rawItems)),
                                r.normalizedSearch) # -1)
            => (r.searched /\ r.found.tier = 1)

\* A one-character query that occurs on the page and is rejected.
C10_Witness ==
  /\ Ran
  /\ out[1].rejected
  /\ Len(out[1].normalizedSearch) = 1
  /\ FirstOccurrence(NormalizedFullText(BuildTextItems(rawItems)), out[1].normalizedSearch) # -1

\* The characters lo..hi of s cut at every white-space character: the pieces
\* between them, some of them empty.
RECURSIVE TokensFrom(_, _, _)
TokensFrom(s, lo, hi) ==
  IF lo > hi THEN << <<>> >>
  ELSE IF lo = hi
       THEN IF s[lo] \in WhiteSpace THEN << <<>>, <<>> >> ELSE << <<s[lo]>> >>
       ELSE LET mid == (lo + hi) \div 2
                left == TokensFrom(s, lo, mid)
                right == TokensFrom(s, mid + 1, hi)
            IN SubSeq(left, 1, Len(left) - 1)
                 \o << left[Len(left)] \o right[1] >>
                 \o Tail(right)

NonEmpty(piece) == piece # <<>>

\* The maximal white-space-free pieces of s.
Tokens(s) == SelectSeq(TokensFrom(s, 1, Len(s)), NonEmpty)

UpperCase == {"A", "B", "C"}

\* C17 (query normalization): the normalized query is the lower-cased
\* white-space-free pieces of the raw text joined by single spaces, cut to its
\* first 100 characters; it has at most 100 characters, no upper-case letter
\* and no two adjacent white-space characters.
C17_Normalization ==
  Ran =>
    LET n == out[1].normalizedSearch
        pieces == Tokens(searchText)
        whole == Join([k \in 1..Len(pieces) |-> ToLowerCase(pieces[k])])
    IN /\ n = SubSeq(whole, 1, Min(Len(whole), 100))
       /\ Len(n) <= 100
       /\ \A i \in 1..Len(n) : n[i] \notin UpperCase
       /\ \A i \in 1..(Len(n) - 1) : ~(n[i] \in WhiteSpace /\ n[i + 1] \in WhiteSpace)

\* A raw text of more than 100 characters with upper case, doubled spaces
\* and white space at both ends, whose normalized form was cut at 100.
C17_Witness ==
  /\ Ran
  /\ Len(searchText) > 100
  /\ searchText[1] \in WhiteSpace
  /\ searchText[Len(searchText)] \in WhiteSpace
  /\ \E i \in 1..Len(searchText) : searchText[i] \in UpperCase
  /\ \E i \in 1..(Len(searchText) - 1) :
       searchText[i] \in WhiteSpace /\ searchText[i + 1] \in WhiteSpace
  /\ Len(Tokens(searchText)) * 2 - 1 > 100
  /\ Len(out[1].normalizedSearch) = 100


\* The page yields no text run: every fragment is empty or white space only.
NoTextRuns ==
  \A i \in 1..Len(rawItems) :
    \A k \in 1..Len(rawItems[i].str) : rawItems[i].str[k] \in WhiteSpace

\* C19 (extraction unavailable): on a page without text runs an accepted
\* query finds an empty index, no tier matches, and the empty list is
\* published, the error state staying clear.
C19_ExtractionUnavailable ==
  (Accepted /\ NoTextRuns) =>
    /\ out[1].textItems = <<>>
    /\ out[1].normalizedFullText = <<>>
    /\ out[1].found.searchIndex = -1
    /\ out[1].found.tier = 0
    /\ out[1].rects = <<>>
    /\ error = Null

\* An accepted query of more than 10 characters on a page of an empty and a
\* white-space-only fragment.
C19_Witness ==
  /\ Accepted
  /\ Len(out[1].normalizedSearch) > FourWordThreshold
  /\ Len(rawItems) = 2
  /\ rawItems[1].str = <<>>
  /\ rawItems[2].str = <<" ">>

\* C25 (run order of a span): when a start run and an end run are found, the
\* end run is not before the start run, and when they are the same run the
\* end offset is greater than the start offset and at most the length of the
\* run's text.
C25_RunOrder ==
  (Accepted /\ out[1].startItemIndex # -1 /\ out[1].endItemIndex # -1) =>
    LET r == out[1]
        endOffset == EndOffset(r.textItems, r.endItemIndex, r.endCharIndex)
    IN /\ r.endItemIndex >= r.startItemIndex
       /\ r.endItemIndex = r.startItemIndex =>
            /\ endOffset > r.startCharOffset
            /\ endOffset <= Len(r.textItems[r.startItemIndex + 1].str)

\* A span inside the second run of a page, starting after the run's first
\* character.
C25_Witness ==
  /\ Accepted
  /\ out[1].startItemIndex = 1
  /\ out[1].endItemIndex = 1
  /\ out[1].startCharOffset > 0
  /\ EndOffset(out[1].textItems, 1, out[1].endCharIndex) > out[1].startCharOffset

\* C27 (normalization is idempotent, no edge white space): normalizing the
\* normalized query gives the normalized query again, and an accepted
\* normalized query neither starts nor ends with a space.
C27_IdempotentNoEdgeSpace ==
  Ran =>
    LET n == out[1].normalizedSearch
    IN /\ NormalizeSearch(n) = n
       /\ Accepted => (n[1] # " " /\ n[Len(n)] # " ")

\* The number of spaces of q: a query of at most two words has at most one.
Spaces(q) == Cardinality({i \in 1..Len(q) : q[i] = " "})

\* C28 (fallback tiers only help queries of three or more words): for an
\* accepted query of at most two space-separated words the four-word and the
\* two-word prefix are the query itself, no prefix search finds what the
\* full search did not, and the search fails exactly when the query does not
\* occur in the page's normalized full text.
C28_TwoWordsNoFallback ==
  (Accepted /\ Spaces(out[1].normalizedSearch) <= 1) =>
    LET r == out[1]
        q == r.normalizedSearch
    IN /\ KeyWords(q, 4) = q
       /\ KeyWords(q, 2) = q
       /\ r.found.tier \in {0, 1}
       /\ r.found.searchIndex = -1 <=> FirstOccurrence(r.normalizedFullText, q) = -1

\* A query of two words and more than 10 characters that is not on the
\* page, whose first word is: both prefix searches run and find nothing.
C28_Witness ==
  /\ Accepted
  /\ Spaces(out[1].normalizedSearch) = 1
  /\ Len(out[1].normalizedSearch) > 10
  /\ out[1].found.triedFour
  /\ out[1].found.triedTwo
  /\ out[1].found.searchIndex = -1
  /\ FirstOccurrence(out[1].normalizedFullText, WordPrefix(out[1].normalizedSearch, 1)) # -1

\* The fragments of the page whose text has a character that is not white
\* space, as positions in rawItems.
KeptFragments == {i \in 1..Len(rawItems) : \E k \in 1..Len(rawItems[i].str) :
                                            rawItems[i].str[k] \notin WhiteSpace}

\* The k-th kept fragment, in extraction order.
KeptFragment(k) ==
  CHOOSE i \in KeptFragments : Cardinality({j \in KeptFragments : j < i}) = k - 1

\* The characters of the full text before run k (1-based): the texts of the
\* runs before it, each followed by one space.
RECURSIVE TextBefore(_, _)
TextBefore(runs, k) ==
  IF k <= 1 THEN 0 ELSE TextBefore(runs, k - 1) + Len(runs[k - 1].str) + 1

\* C22 (run index construction): the run list is the fragments with a
\* character that is not white space, in extraction order, each with its
\* fragment's text unchanged; the full text is the runs' texts in order with
\* one space between two runs and nothing else.
C22_RunIndex ==
  Accepted =>
    LET runs == out[1].textItems
        full == out[1].fullText
        n == Len(runs)
    IN /\ n = Cardinality(KeptFragments)
       /\ \A k \in 1..n : runs[k].str = rawItems[KeptFragment(k)].str
       /\ Len(full) = IF n = 0 THEN 0 ELSE TextBefore(runs, n) + Len(runs[n].str)
       /\ \A k \in 1..n :
            /\ SubSeq(full, TextBefore(runs, k) + 1, TextBefore(runs, k) + Len(runs[k].str))
                 = runs[k].str
            /\ k < n => full[TextBefore(runs, k) + Len(runs[k].str) + 1] = " "

\* A page whose first fragment is white space only and is dropped, and whose
\* second fragment is kept with its trailing space.
C22_Witness ==
  /\ Accepted
  /\ Len(rawItems) = 2
  /\ rawItems[1].str = <<" ">>
  /\ rawItems[2].str = <<"b", "c", " ">>
  /\ Len(out[1].textItems) = 1
  /\ out[1].textItems[1].str = <<"b", "c", " ">>
  /\ out[1].fullText = <<"b", "c", " ">>

(***************************************************************************)
(* Properties of the span and of the rectangle (checked under             *)
(* SpecGeometry).                                                          *)
(***************************************************************************)
\* The only rectangle a run of renderTextLayer publishes.
Published == Accepted /\ Len(out[1].rects) = 1

\* Collapsing white space changes no offset of the page's full text.
CleanPage(textItems) == Len(NormalizedFullText(textItems)) = Len(FullText(textItems))

\* The 0-based offset of the full text at which run i (0-based) starts.
RunStart(textItems, i) ==
  IF i = 0 THEN 0 ELSE Len(FullText(SubSeq(textItems, 1, i))) + 1

\* The run that holds the character at offset p of the full text, -1 for a
\* joining space or an offset outside the text.
RunOf(textItems, p) ==
  LET holds(i) == /\ RunStart(textItems, i) <= p
                  /\ p < RunStart(textItems, i) + Len(textItems[i + 1].str)
  IN IF \E i \in 0..(Len(textItems) - 1) : holds(i)
     THEN CHOOSE i \in 0..(Len(textItems) - 1) : holds(i)
     ELSE -1

\* The full normalized query of the run occurs on the page from a character of
\* run i to a character of a later run j.
CrossRun(i, j) ==
  /\ Accepted
  /\ CleanPage(out[1].textItems)
  /\ LET p == FirstOccurrence(out[1].normalizedFullText, out[1].normalizedSearch)
     IN /\ p # -1
        /\ i = RunOf(out[1].textItems, p)
        /\ j = RunOf(out[1].textItems, p + Len(out[1].normalizedSearch) - 1)
        /\ i # -1
        /\ i < j

\* What C11 says of the span: tier 1, from its offset in run i to its offset
\* in run j.
CrossRunSpan(i, j) ==
  LET r == out[1]
      p == FirstOccurrence(r.normalizedFullText, r.normalizedSearch)
  IN /\ r.found.tier = 1
     /\ r.startItemIndex = i
     /\ r.startCharOffset = p - RunStart(r.textItems, i)
     /\ r.endItemIndex = j
     /\ EndOffset(r.textItems, j, r.endCharIndex)
          = p + Len(r.normalizedSearch) - RunStart(r.textItems, j)

\* C11 (cross-run match): a full query that occurs from inside run i to
\* inside a later run j is matched by tier 1, the span starts at its offset
\* in run i and ends at its offset in run j, and exactly one rectangle is
\* published, of width > 0 and height > 0.
C11_CrossRunMatch ==
  \A i, j \in 0..MaxItems :
    CrossRun(i, j) =>
      /\ CrossRunSpan(i, j)
      /\ Len(out[1].rects) = 1
      /\ ~out[1].rects[1].nan
      /\ out[1].rects[1].width > 0
      /\ out[1].rects[1].height > 0


SetMin(S) == CHOOSE m \in S : \A n \in S : m <= n
SetMax(S) == CHOOSE m \in S : \A n \in S : n <= m

\* The x-start and the x-end run i contributes to the box of the span from
\* run s (offset a) to run e (offset b), in tenths.
XStart(run, i, s, a) == IF i = s THEN run.x + a * (run.fontSize * 6) ELSE run.x
XEnd(run, i, e, b) == IF i = e THEN run.x + b * (run.fontSize * 6) ELSE run.x + run.width

\* C12 (page-space bounding box): the box of a span from run s (offset a) to
\* run e (offset b) is the least contributed x-start, the greatest contributed
\* x-end, the least originY - fontSize and the greatest originY of exactly
\* the runs s..e.
C12_BoundingBox ==
  Published =>
    LET r == out[1]
        runs == r.textItems
        s == r.startItemIndex
        e == r.endItemIndex
        a == r.startCharOffset
        b == EndOffset(runs, e, r.endCharIndex)
    IN /\ ~r.box.infinite
       /\ s <= e
       /\ r.box.minX = SetMin({XStart(runs[i + 1], i, s, a) : i \in s..e})
       /\ r.box.maxX = SetMax({XEnd(runs[i + 1], i, e, b) : i \in s..e})
       /\ r.box.minY = SetMin({runs[i + 1].y - 10 * runs[i + 1].fontSize : i \in s..e})
       /\ r.box.maxY = SetMax({runs[i + 1].y : i \in s..e})

\* A span over two runs of different font sizes that starts and ends inside
\* its runs, whose left edge comes from the last run and whose top from the
\* first.
C12_Witness ==
  /\ Published
  /\ LET r == out[1]
         first == r.textItems[r.startItemIndex + 1]
         last == r.textItems[r.endItemIndex + 1]
     IN /\ r.startItemIndex < r.endItemIndex
        /\ r.startCharOffset > 0
        /\ EndOffset(r.textItems, r.endItemIndex, r.endCharIndex) < Len(last.str)
        /\ first.fontSize # last.fontSize
        /\ r.box.minX = last.x
        /\ last.x < first.x
        /\ r.box.maxY = first.y
        /\ last.y < first.y


\* C13 (coordinate transform): the published rectangle is the image of the
\* box under x -> scale * x, y -> height - scale * y applied once: its top is
\* the image of maxY, its height scale * (maxY - minY), its left the image of
\* minX and its width scale * (maxX - minX), each then clamped at 0.
C13_TransformOnce ==
  Published =>
    LET box == out[1].box
        rect == out[1].rects[1]
        scale == viewport.scale
        height == 10 * viewport.height
    IN /\ ~rect.nan
       /\ rect.x = Max(0, scale * box.minX)
       /\ rect.y = Max(0, height - scale * box.maxY)
       /\ rect.width = Max(0, scale * (box.maxX - box.minX))
       /\ rect.height = Max(0, scale * (box.maxY - box.minY))


\* C14 (span-to-rect coverage): for a span that starts and ends in one run,
\* [x, x + width] of the published rectangle lies within the image of the
\* run's [originX, originX + width]; stated for the runs whose image reaches
\* x >= 0, the others leaving no room for a rectangle with x >= 0.
C14_SingleRunCoverage ==
  (Published /\ out[1].startItemIndex = out[1].endItemIndex) =>
    LET run == out[1].textItems[out[1].startItemIndex + 1]
        rect == out[1].rects[1]
        left == viewport.scale * run.x
        right == viewport.scale * (run.x + run.width)
    IN right >= 0 =>
         /\ ~rect.nan
         /\ Max(0, left) <= rect.x
         /\ rect.x + rect.width <= right


\* C15 (non-negative rectangle): every rectangle passed to setHighlightRects
\* has x >= 0, y >= 0, width >= 0 and height >= 0 (and none of them NaN).
C15_NonNegative ==
  Ran =>
    \A k \in 1..Len(out[1].rects) :
      LET rect == out[1].rects[k]
      IN /\ ~rect.nan
         /\ rect.x >= 0
         /\ rect.y >= 0
         /\ rect.width >= 0
         /\ rect.height >= 0

\* A published rectangle whose box lies left of and below the page origin.
C15_Witness ==
  /\ Published
  /\ out[1].box.minX < 0
  /\ out[1].box.maxY < 0
  /\ out[1].rects[1].x = 0
  /\ out[1].rects[1].y = 0


\* C16 (minimum visible size): every div the overlay draws for a published
\* rectangle is at least 10 px wide and 8 px high.
C16_MinimumVisibleSize ==
  Ran =>
    \A k \in 1..Len(out[1].rects) :
      LET div == Overlay(out[1].rects)[k]
      IN /\ ~div.nan
         /\ div.width >= 10 * 10
         /\ div.height >= 10 * 8

\* A published rectangle of height 0 and less than 10 px wide.
C16_Witness ==
  /\ Published
  /\ out[1].rects[1].height = 0
  /\ out[1].rects[1].width > 0
  /\ out[1].rects[1].width < 10 * 10
  /\ Overlay(out[1].rects)[1].width = 10 * 10
  /\ Overlay(out[1].rects)[1].height = 10 * 8

\* C23 (run geometry derivation): every run has fontSize > 0, which is
\* |transform[0]| when that is not 0, else |transform[3]| when that is not 0,
\* else 12; originX is transform[4], originY is transform[5] and the width is
\* fontSize * 0.6 * length(text) (lengths in tenths); a fragment without
\* transform counts as one with the transform [1, 0, 0, 1, 0, 0].
C23_RunGeometry ==
  Accepted =>
    \A k \in 1..Len(out[1].textItems) :
      LET run == out[1].textItems[k]
          fragment == rawItems[KeptFragment(k)]
          t == IF fragment.transform = "null" THEN <<1, 0, 0, 1, 0, 0>>
               ELSE fragment.transform
          a == IF t[1] < 0 THEN -t[1] ELSE t[1]
          d == IF t[4] < 0 THEN -t[4] ELSE t[4]
      IN /\ run.fontSize > 0
         /\ a # 0 => run.fontSize = a
         /\ (a = 0 /\ d # 0) => run.fontSize = d
         /\ (a = 0 /\ d = 0) => run.fontSize = 12
         /\ run.x = 10 * t[5]
         /\ run.y = 10 * t[6]
         /\ run.width = 6 * run.fontSize * Len(run.str)
         /\ run.height = run.fontSize

\* A page of a run whose size comes from a negative transform[3] and of a
\* rotated run that gets the default size.
C23_Witness ==
  /\ Accepted
  /\ Len(out[1].textItems) = 2
  /\ rawItems[1].transform[1] = 0
  /\ rawItems[1].transform[4] < 0
  /\ out[1].textItems[1].fontSize = -rawItems[1].transform[4]
  /\ rawItems[2].transform[1] = 0
  /\ rawItems[2].transform[4] = 0
  /\ out[1].textItems[2].fontSize = 12
  /\ out[1].textItems[2].width = 72 * Len(rawItems[2].str)

\* C26 (non-degenerate page-space box): the box from which a rectangle is
\* computed has minX < maxX and minY < maxY, whatever lines and sizes the
\* runs of the span have.
C26_NonDegenerateBox ==
  Published =>
    /\ ~out[1].box.infinite
    /\ out[1].box.minX < out[1].box.maxX
    /\ out[1].box.minY < out[1].box.maxY

\* A span over two runs on different lines that ends, in the second run, left
\* of where it starts in the first.
C26_Witness ==
  /\ Published
  /\ LET r == out[1]
         s == r.startItemIndex
         e == r.endItemIndex
     IN /\ s < e
        /\ r.textItems[s + 1].y # r.textItems[e + 1].y
        /\ ItemEndX(r.textItems, e, e, r.endCharIndex)
             < ItemStartX(r.textItems, s, s, r.startCharOffset)
        /\ r.box.minX < r.box.maxX

(***************************************************************************)
(* Properties of the component (checked under Spec).                      *)
(***************************************************************************)
\* The most recently started invocation of renderPage.
Newest(ts) == ts[Len(ts)]

\* The invocations started before the most recent one that are in flight.
OlderInFlight(ts) == IF ts = <<>> THEN 0 ELSE Len(SelectSeq(SubSeq(ts, 1, Len(ts) - 1), InFlight))

\* The render-page effect starts an invocation in this step.
Starts ==
  /\ tasks' # <<>>
  /\ Newest(tasks').pc = "getPage"
  /\ tasks = <<>> \/ Newest(tasks') # Newest(tasks)

\* An invocation ends in this step.
Ends == Len(SelectSeq(tasks', InFlight)) < Len(SelectSeq(tasks, InFlight))

\* An invocation that had been superseded by a later one ends in this step.
SupersededEnds == ~Starts /\ OlderInFlight(tasks') < OlderInFlight(tasks)

\* The rectangles of the request an invocation was started for.
RequestedRects(task) ==
  IF task.text = <<>> THEN <<>> ELSE ComputedRects(task.page, task.text)

\* C1 (supersession): once the computation of the latest request has
\* published and every earlier computation has ended too, the published
\* rectangles are those computed for the latest request.
C1_Supersession ==
  ( /\ tasks # <<>>
    /\ \A g \in 1..Len(tasks) : ~InFlight(tasks[g])
    /\ Newest(tasks).pc = "published" )
  => highlightRects = RequestedRects(Newest(tasks))

\* C2 (ordering safety): a computation that was superseded before it
\* finished never changes the published rectangles.
C2_SupersededNeverPublishes ==
  [][SupersededEnds => highlightRects' = highlightRects]_vars

\* C3 (clear stays clear): while highlightText is empty and the computation
\* started by the clearing request has published, no rectangle is published.
C3_ClearedStaysEmpty ==
  ( /\ highlightText = <<>>
    /\ tasks # <<>>
    /\ Newest(tasks).text = <<>>
    /\ Newest(tasks).pc = "published" )
  => highlightRects = <<>>

AtTextLayer(task) == task.pc = "getTextContent"

\* The most recently started invocation ends in the catch of renderTextLayer
\* in this step.
Catches ==
  /\ tasks # <<>>
  /\ tasks' # <<>>
  /\ AtTextLayer(Newest(tasks))
  /\ Newest(tasks').pc = "caught"

\* An invocation leaves renderTextLayer in this step, normally or not.
LeavesTextLayer == Len(SelectSeq(tasks', AtTextLayer)) < Len(SelectSeq(tasks, AtTextLayer))

\* C18 (failure containment): a step in which renderTextLayer ends in its
\* catch publishes the empty list, and no step in which an invocation leaves
\* renderTextLayer changes the error state.
C18_FailureContained ==
  [][ /\ Catches => highlightRects' = <<>>
      /\ LeavesTextLayer => error' = error ]_vars

\* renderTextLayer of the latest request has failed: nothing is highlighted
\* and the viewer still shows the page.
C18_Witness ==
  /\ tasks # <<>>
  /\ Newest(tasks).pc = "caught"
  /\ Newest(tasks).text # <<>>
  /\ highlightRects = <<>>
  /\ error = Null
  /\ CanvasMounted

\* The non-empty rectangle lists renderTextLayer computes from the text of
\* page p; no list belongs to both pages of the document.
RectsOfPage(p) == {ComputedRects(p, text) : text \in HighlightTexts} \ {<<>>}

\* C24 (displayed rectangles belong to the displayed page): published
\* rectangles, when there are any, were computed from the text of the page
\* currentPage.
C24_RectsOfShownPage ==
  highlightRects # <<>> => highlightRects \in RectsOfPage(currentPage)

\* The parent passes a highlightPage that is no page of the document.
PassesPageOutside ==
  /\ highlightPage' # highlightPage
  /\ highlightPage' < 1 \/ highlightPage' > numPages

\* C29 (page bounds): with a document loaded, 1 <= currentPage <= numPages
\* in every state; a step in which the parent passes a highlightPage outside
\* 1..numPages leaves currentPage as it is and makes no onPageChange call.
C29_PageBounds ==
  /\ [](pdf # Null => (1 <= currentPage /\ currentPage <= numPages))
  /\ [][PassesPageOutside => (currentPage' = currentPage /\ notified' = notified)]_vars

\* The last page is shown after a click on Next, and the parent has passed
\* the page number after the last one.
C29_Witness ==
  /\ pdf # Null
  /\ highlightPage = numPages + 1
  /\ currentPage = numPages
  /\ numPages > 1
  /\ notified = numPages

\* The load of file u has settled.
Settled(u) == loads[u] \in {"resolved", "rejected"}

\* C30 (document load supersession): when the parent has passed the other
\* file after the load of the first one was started, and both loads have
\* settled, the one of the other file by resolving, the viewer holds the
\* other file's document and page count, is not loading, and is not in the
\* error state of a failed load.
C30_LoadSupersession ==
  (fileUrl = OtherFile /\ loads[OtherFile] = "resolved" /\ Settled(FirstFile)) =>
    /\ pdf = OtherFile
    /\ numPages = NumPagesOf(OtherFile)
    /\ ~loading
    /\ error # "Failed to load PDF"

(***************************************************************************)
(* Properties of the loops of renderTextLayer (checked under SpecLoops).  *)
(***************************************************************************)
\* The order in which the loops are entered.
Rank(pc) ==
  CASE pc = "normalize" -> 0
    [] pc = "build" -> 1
    [] pc = "findStart" -> 2
    [] pc = "findEnd" -> 3
    [] pc = "bbox" -> 4
    [] pc = "inner" -> 4
    [] OTHER -> 5

\* The loop counters stay within the items.
WithinItems ==
  /\ loop.i <= Max(Len(rawItems), Len(loop.textItems))
  /\ loop.j <= loop.i
  /\ Len(loop.textItems) <= Len(rawItems)

\* A step that stays in a loop moves to the next item, and no loop is
\* entered again after it has been left.
Advances ==
  /\ Rank(loop'.pc) >= Rank(loop.pc)
  /\ (loop'.pc = loop.pc /\ loop.pc \in {"build", "findStart", "findEnd", "bbox"})
       => loop'.i = loop.i + 1
  /\ (loop.pc = "inner" /\ loop'.pc = "inner") => loop'.j = loop.j + 1
  /\ (loop.pc = "inner" /\ loop'.pc = "bbox") => loop'.i = loop.i + 1
  /\ (loop.pc = "bbox" /\ loop'.pc = "inner") => loop'.i = loop.i

\* Some step of renderTextLayer can be taken.
CanStep ==
  /\ loop.pc \in {"normalize", "build", "findStart", "findEnd", "bbox", "inner"}
  /\ loop.pc = "build" => loop.i <= Len(rawItems)
  /\ loop.pc = "inner" => loop.i < Len(loop.textItems)

\* More than the steps one loop can take on a page of Len(rawItems) fragments.
LoopWidth == (Len(rawItems) + 1) * (Len(rawItems) + 2) + 1

\* A bound on the steps left in the loop the run is in.
StepsLeftInLoop ==
  LET n == Len(loop.textItems)
  IN CASE loop.pc = "build" -> Len(rawItems) - loop.i
       [] loop.pc \in {"findStart", "findEnd"} -> n - loop.i
       [] loop.pc = "bbox" -> (n - loop.i) * (n + 2) + n + 1
       [] loop.pc = "inner" -> (n - loop.i) * (n + 2) + (n - loop.j)
       [] OTHER -> 0

\* A bound on the steps left before setHighlightRects is called.
StepsLeft == (5 - Rank(loop.pc)) * LoopWidth + StepsLeftInLoop

\* C20 (termination): every step of renderTextLayer lowers a bound on the
\* steps left, which is never negative and at first at most 5 * LoopWidth;
\* every loop visits each item at most once and in order; and as long as
\* setHighlightRects has not been called a step can be taken.
C20_Terminates ==
  /\ [](/\ WithinItems
        /\ StepsLeft >= 0
        /\ StepsLeft <= 5 * LoopWidth
        /\ StepsLeftInLoop < LoopWidth
        /\ loop.pc # "published" => CanStep)
  /\ [][Advances /\ StepsLeft' < StepsLeft]_vars

\* A run that went through every loop and published the rectangle of a span
\* over two items, the same rectangle renderTextLayer computes as a whole.
C20_Witness ==
  /\ loop.pc = "published"
  /\ loop.rects # <<>>
  /\ loop.startItemIndex < loop.endItemIndex
  /\ loop.j = loop.endItemIndex
  /\ loop.rects = RenderTextLayer(rawItems, viewport, searchText).rects

(***************************************************************************)
(* Properties of repeated calls of renderTextLayer (checked under         *)
(* SpecRepeat).                                                            *)
(***************************************************************************)
\* Call r was made with the arguments of the call that is running.
SameArguments(r) ==
  /\ r.searchText = searchText
  /\ r.rawItems = rawItems
  /\ r.viewport = viewport

\* C21 (determinism): two calls with the same fragments, search text and
\* viewport pass the same list to setHighlightRects, whatever calls were made
\* before or between them; the list is the one the arguments determine.
C21_Determinism ==
  /\ \A a, b \in 1..Len(out) :
       ( /\ out[a].searchText = out[b].searchText
         /\ out[a].rawItems = out[b].rawItems
         /\ out[a].viewport = out[b].viewport ) => out[a].rects = out[b].rects
  /\ loop.pc = "published" =>
       /\ \A a \in 1..Len(out) : SameArguments(out[a]) => out[a].rects = loop.rects
       /\ loop.rects = RenderTextLayer(rawItems, viewport, searchText).rects

\* The third call repeats the first one after a second call that published
\* another rectangle, and publishes the rectangle of the first call.
C21_Witness ==
  /\ loop.pc = "published"
  /\ Len(out) = 2
  /\ SameArguments(out[1])
  /\ ~SameArguments(out[2])
  /\ out[2].rects # <<>>
  /\ loop.rects # <<>>
  /\ out[2].rects # loop.rects
  /\ out[1].rects = loop.rects

====
